---- MODULE Spec2Model ----
(***************************************************************************)
(* State machine of the App component (src/unnamed/part_000): the six     *)
(* useState cells, the file boundary of ImageUploader, and the pending    *)
(* continuations of handleCompress (the 1.5 s timer and the image load    *)
(* callbacks), which run later on the event loop with the values their    *)
(* closure captured.                                                       *)
(***************************************************************************)
EXTENDS Integers, Sequences, FiniteSets, TLC

VARIABLES
    status,              \* AppStatus
    originalFile,        \* File | null
    originalImageUrl,    \* object URL | null
    compressedImageUrl,  \* data URL | null
    stats,               \* CompressionStats | null
    error,               \* string | null
    tasks,               \* handleCompress invocations whose continuation is pending
    revoked,             \* ids of the object URLs passed to URL.revokeObjectURL
    nextUrl,             \* id of the next object URL URL.createObjectURL returns
    nextTask,            \* id of the next handleCompress invocation
    lastOp               \* the handler or callback that ran last, and its input/output

vars == <<status, originalFile, originalImageUrl, compressedImageUrl, stats,
          error, tasks, revoked, nextUrl, nextTask, lastOp>>

appState == <<status, originalFile, originalImageUrl, compressedImageUrl, stats, error>>

NULL == [null |-> TRUE]

----------------------------------------------------------------------------
(* Bounds of the model *)

MaxSize == 1        \* largest File.size, in bytes
MaxUrls == 2        \* object URLs created in one run (accepted selections)
MaxCompress == 2    \* handleCompress invocations that start a compression in one run
MaxQuads == 1       \* length of the base64 payload of a data URL, in groups of 4 chars

----------------------------------------------------------------------------
(* Strings *)

StartsWith(s, prefix) ==
    /\ Len(s) >= Len(prefix)
    /\ SubSeq(s, 1, Len(prefix)) = prefix

\* Positions of '.' in s.
DotPositions(s) == {i \in 1..Len(s) : SubSeq(s, i, i) = "."}

Min(S) == CHOOSE x \in S : \A y \in S : x <= y

\* name.split('.')[0]: the text before the first '.', the whole string when
\* there is none.
SplitDotFirst(s) ==
    IF DotPositions(s) = {} THEN s ELSE SubSeq(s, 1, Min(DotPositions(s)) - 1)

----------------------------------------------------------------------------
(* Files the user can offer.  A File has a name, a MIME type and a size;    *)
(* decodable says whether the browser can decode its bytes as an image     *)
(* (image.onload versus image.onerror).  An empty file and a non-image     *)
(* file never decode.  The files vary one field at a time around BaseFile. *)

ImagePrefix == "image/"

Types == {"image/jpeg", "image/png", "image/gif", "text/plain"}

Names == {"a.png", "a.b.png", ".png"}

BaseFile == [name |-> "a.png", type |-> "image/png", size |-> 1, decodable |-> TRUE]

TypeVariants ==
    {[BaseFile EXCEPT !.type = t, !.decodable = StartsWith(t, ImagePrefix)] : t \in Types}

NameVariants == {[BaseFile EXCEPT !.name = n] : n \in Names}

\* A file of each size, and one whose bytes are not an image.
CorruptFile == [BaseFile EXCEPT !.decodable = FALSE]

SizeVariants ==
    {[BaseFile EXCEPT !.size = s, !.decodable = (s # 0)] : s \in 0..MaxSize}
        \cup {CorruptFile}

Files == TypeVariants \cup NameVariants \cup SizeVariants

\* <input type="file" accept="image/jpeg, image/png">: the picker offers the
\* files of the accepted types; a drop carries any file.
AcceptTypes == {"image/jpeg", "image/png"}

PickerFiles == {f \in Files : f.type \in AcceptTypes}

----------------------------------------------------------------------------
(* JS numbers that result from a division: a rational num/den, or one of   *)
(* NaN, Infinity, -Infinity.                                               *)

Finite(n, d) == [kind |-> "finite", num |-> n, den |-> d]

NaN == [kind |-> "NaN", num |-> 0, den |-> 1]

PosInfinity == [kind |-> "Infinity", num |-> 0, den |-> 1]

NegInfinity == [kind |-> "-Infinity", num |-> 0, den |-> 1]

\* (1 - c / o) * 100 in IEEE arithmetic: c / 0 is NaN for c = 0, Infinity for
\* c > 0 and -Infinity for c < 0.
ReductionPercentage_Swapped(compressedSize, originalSize) ==
    IF compressedSize = 0
    THEN (IF originalSize = 0 THEN NaN ELSE NegInfinity)
    ELSE Finite((compressedSize - originalSize) * 100, compressedSize)

ReductionPercentage(compressedSize, originalSize) ==
    IF originalSize = 0
    THEN (IF compressedSize = 0 THEN NaN
          ELSE IF compressedSize > 0 THEN NegInfinity ELSE PosInfinity)
    ELSE Finite((originalSize - compressedSize) * 100, originalSize)

\* Math.round(x) for x = n / 4: the nearest integer, halves rounded up.
RoundQuarter(n) == (n + 2) \div 4

\* Length of 'data:image/jpeg;base64,'.
HeadLen == 23

\* A data URL made by canvas.toDataURL: the object URL whose image was drawn,
\* and the length of the base64 payload.
DataUrl(src, b64len) == [src |-> src, b64len |-> b64len]

DataUrlLength(dataUrl) == HeadLen + dataUrl.b64len

B64Lens == {4 * q : q \in 1..MaxQuads}

CompressedSize(compressedDataUrl) ==
    RoundQuarter((DataUrlLength(compressedDataUrl) - HeadLen) * 3)

\* psnr = 35 + Math.random() * 5 and mse = 5 + Math.random() * 5, with
\* Math.random() in [0, 1): each is kept as the interval it is drawn from.
MockPsnr == [from |-> 35, below |-> 40]

MockMse == [from |-> 5, below |-> 10]

MakeStats(file, compressedDataUrl) ==
    [originalSize |-> file.size,
     compressedSize |-> CompressedSize(compressedDataUrl),
     reductionPercentage |->
        ReductionPercentage(CompressedSize(compressedDataUrl), file.size),
     psnr |-> MockPsnr,
     mse |-> MockMse]

----------------------------------------------------------------------------
(* Messages.  A string held by a nullable cell is wrapped in a record. *)

Message(text) == [message |-> text]

MsgInvalidFile == Message("Please select a valid image file (JPEG or PNG).")

MsgNoContext == Message("Could not process image.")

MsgLoadFailed == Message("Could not load image for processing.")

\* What ran last: the handler or callback, the File it was given, the
\* handleCompress invocation it belongs to, and a detail (the name of the
\* download handleDownload made, the outcome of getContext in image.onload).
Op(op, file, task, info) == [op |-> op, file |-> file, task |-> task, info |-> info]

----------------------------------------------------------------------------
(* Initial state: the useState defaults. *)

Init ==
    /\ status = "idle"
    /\ originalFile = NULL
    /\ originalImageUrl = NULL
    /\ compressedImageUrl = NULL
    /\ stats = NULL
    /\ error = NULL
    /\ tasks = <<>>
    /\ revoked = {}
    /\ nextUrl = 1
    /\ nextTask = 1
    /\ lastOp = Op("init", NULL, 0, "")

----------------------------------------------------------------------------
(* handleImageSelect *)

\* URL.createObjectURL(file): a fresh URL that resolves to the file.
CreateObjectURL(file) == [id |-> nextUrl, blob |-> file]

handleImageSelect_NoReturn(via, file) ==
    /\ nextUrl <= MaxUrls
    /\ error' = IF ~StartsWith(file.type, ImagePrefix) THEN MsgInvalidFile ELSE NULL
    /\ originalFile' = file
    /\ originalImageUrl' = CreateObjectURL(file)
    /\ nextUrl' = nextUrl + 1
    /\ status' = "image-loaded"
    /\ compressedImageUrl' = NULL
    /\ stats' = NULL
    /\ lastOp' = Op(via, file, 0, "")
    /\ UNCHANGED <<tasks, revoked, nextTask>>

handleImageSelect_KeepError(via, file) ==
    /\ IF ~StartsWith(file.type, ImagePrefix)
       THEN /\ error' = MsgInvalidFile
            /\ UNCHANGED <<originalFile, originalImageUrl, status,
                           compressedImageUrl, stats, nextUrl>>
       ELSE /\ nextUrl <= MaxUrls
            /\ UNCHANGED error
            /\ originalFile' = file
            /\ originalImageUrl' = CreateObjectURL(file)
            /\ nextUrl' = nextUrl + 1
            /\ status' = "image-loaded"
            /\ compressedImageUrl' = NULL
            /\ stats' = NULL
    /\ lastOp' = Op(via, file, 0, "")
    /\ UNCHANGED <<tasks, revoked, nextTask>>

handleImageSelect(via, file) ==
    /\ IF ~StartsWith(file.type, ImagePrefix)
       THEN /\ error' = MsgInvalidFile
            /\ UNCHANGED <<originalFile, originalImageUrl, status,
                           compressedImageUrl, stats, nextUrl>>
       ELSE /\ nextUrl <= MaxUrls
            /\ error' = NULL
            /\ originalFile' = file
            /\ originalImageUrl' = CreateObjectURL(file)
            /\ nextUrl' = nextUrl + 1
            /\ status' = "image-loaded"
            /\ compressedImageUrl' = NULL
            /\ stats' = NULL
    /\ lastOp' = Op(via, file, 0, "")
    /\ UNCHANGED <<tasks, revoked, nextTask>>

\* ImageUploader is rendered only while status is 'idle'.
handleFileChange ==
    /\ status = "idle"
    /\ \E file \in PickerFiles : handleImageSelect("handleFileChange", file)

handleDrop ==
    /\ status = "idle"
    /\ \E file \in Files : handleImageSelect("handleDrop", file)

----------------------------------------------------------------------------
(* handleCompress, up to the await; the button is rendered with the image  *)
(* panel and disabled while status is 'compressing' or 'done'.             *)

handleCompress ==
    /\ status = "image-loaded"
    /\ IF originalImageUrl = NULL \/ originalFile = NULL
       THEN /\ lastOp' = Op("handleCompress", NULL, 0, "")
            /\ UNCHANGED <<status, tasks, nextTask>>
       ELSE /\ nextTask <= MaxCompress
            /\ status' = "compressing"
            /\ tasks' = Append(tasks, [id |-> nextTask, file |-> originalFile,
                                       url |-> originalImageUrl,
                                       phase |-> "timer", ok |-> FALSE])
            /\ nextTask' = nextTask + 1
            /\ lastOp' = Op("handleCompress", originalFile, nextTask, "")
    /\ UNCHANGED <<originalFile, originalImageUrl, compressedImageUrl, stats,
                   error, revoked, nextUrl>>

TaskIds == 1..MaxCompress

IndexOf(t) == CHOOSE i \in 1..Len(tasks) : tasks[i].id = t

Pending(t) == \E i \in 1..Len(tasks) : tasks[i].id = t

Without(i) == SubSeq(tasks, 1, i - 1) \o SubSeq(tasks, i + 1, Len(tasks))

\* The 1.5 s timer of the oldest waiting invocation fires: image.src is
\* assigned, and the load will succeed when the object URL still resolves
\* (it was not revoked) and its bytes decode.
TimerFire ==
    /\ \E i \in 1..Len(tasks) :
        /\ tasks[i].phase = "timer"
        /\ \A j \in 1..(i - 1) : tasks[j].phase # "timer"
        /\ tasks' = [tasks EXCEPT ![i].phase = "loading",
                                  ![i].ok = /\ tasks[i].url.id \notin revoked
                                            /\ tasks[i].url.blob.decodable]
        /\ lastOp' = Op("timer", NULL, tasks[i].id, "")
    /\ UNCHANGED <<appState, revoked, nextUrl, nextTask>>

\* image.onload of invocation t, run with the file and URL its closure holds.
\* canvas.getContext('2d') may return null.
ImageOnload(t) ==
    /\ Pending(t)
    /\ LET task == tasks[IndexOf(t)] IN
        /\ task.phase = "loading"
        /\ task.ok
        /\ \E ctx \in BOOLEAN :
            IF ~ctx
            THEN /\ error' = MsgNoContext
                 /\ status' = "image-loaded"
                 /\ lastOp' = Op("image.onload", NULL, t, "no-context")
                 /\ UNCHANGED <<compressedImageUrl, stats>>
            ELSE \E b64len \in B64Lens :
                 LET compressedDataUrl == DataUrl(task.url, b64len) IN
                 /\ compressedImageUrl' = compressedDataUrl
                 /\ stats' = MakeStats(task.file, compressedDataUrl)
                 /\ status' = "done"
                 /\ lastOp' = Op("image.onload", NULL, t, "2d")
                 /\ UNCHANGED error
        /\ tasks' = Without(IndexOf(t))
    /\ UNCHANGED <<originalFile, originalImageUrl, revoked, nextUrl, nextTask>>

\* image.onerror of invocation t.
ImageOnerror_Silent(t) ==
    /\ Pending(t)
    /\ LET task == tasks[IndexOf(t)] IN
        /\ task.phase = "loading"
        /\ ~task.ok
        /\ tasks' = Without(IndexOf(t))
        /\ lastOp' = Op("image.onerror", NULL, t, "")
    /\ UNCHANGED <<appState, revoked, nextUrl, nextTask>>

ImageOnerror(t) ==
    /\ Pending(t)
    /\ LET task == tasks[IndexOf(t)] IN
        /\ task.phase = "loading"
        /\ ~task.ok
        /\ error' = MsgLoadFailed
        /\ status' = "image-loaded"
        /\ tasks' = Without(IndexOf(t))
        /\ lastOp' = Op("image.onerror", NULL, t, "")
    /\ UNCHANGED <<originalFile, originalImageUrl, compressedImageUrl, stats,
                   revoked, nextUrl, nextTask>>

LoadCallback(t) == ImageOnload(t) \/ ImageOnerror(t)

----------------------------------------------------------------------------
(* handleDownload; the button is disabled unless status is 'done'. *)

\* `compressed_${originalFile?.name.split('.')[0] || 'image'}.jpg`
DownloadName(file) ==
    "compressed_"
        \o (IF file = NULL THEN "image"
            ELSE IF SplitDotFirst(file.name) = "" THEN "image"
            ELSE SplitDotFirst(file.name))
        \o ".jpg"

handleDownload ==
    /\ status = "done"
    /\ lastOp' = IF compressedImageUrl = NULL
                 THEN Op("handleDownload", NULL, 0, "")
                 ELSE Op("handleDownload", NULL, 0, DownloadName(originalFile))
    /\ UNCHANGED <<appState, tasks, revoked, nextUrl, nextTask>>

----------------------------------------------------------------------------
(* handleClear; the button is rendered with the image panel.  Revoking the *)
(* data URL in compressedImageUrl has no effect: only object URLs are      *)
(* registered.                                                             *)

handleClear_KeepError ==
    /\ status # "idle"
    /\ revoked' = IF originalImageUrl # NULL
                  THEN revoked \cup {originalImageUrl.id} ELSE revoked
    /\ status' = "idle"
    /\ originalFile' = NULL
    /\ originalImageUrl' = NULL
    /\ compressedImageUrl' = NULL
    /\ stats' = NULL
    /\ UNCHANGED error
    /\ lastOp' = Op("handleClear", NULL, 0, "")
    /\ UNCHANGED <<tasks, nextUrl, nextTask>>

handleClear ==
    /\ status # "idle"
    /\ revoked' = IF originalImageUrl # NULL
                  THEN revoked \cup {originalImageUrl.id} ELSE revoked
    /\ status' = "idle"
    /\ originalFile' = NULL
    /\ originalImageUrl' = NULL
    /\ compressedImageUrl' = NULL
    /\ stats' = NULL
    /\ error' = NULL
    /\ lastOp' = Op("handleClear", NULL, 0, "")
    /\ UNCHANGED <<tasks, nextUrl, nextTask>>

----------------------------------------------------------------------------

Next ==
    \/ handleFileChange
    \/ handleDrop
    \/ handleCompress
    \/ TimerFire
    \/ \E t \in TaskIds : ImageOnload(t)
    \/ \E t \in TaskIds : ImageOnerror(t)
    \/ handleDownload
    \/ handleClear

Spec == Init /\ [][Next]_vars

\* The event loop runs every timer that is due and every load callback that
\* is queued; the user's actions are not forced.
FairSpec ==
    /\ Spec
    /\ WF_vars(TimerFire)
    /\ \A t \in TaskIds : WF_vars(LoadCallback(t))

----------------------------------------------------------------------------
(* Properties *)

SelectOps == {"handleFileChange", "handleDrop"}

InitialAppState == <<"idle", NULL, NULL, NULL, NULL, NULL>>

\* C1: a selection of a file whose type does not start with 'image/' sets
\* error to the message and leaves status, originalFile, originalImageUrl,
\* compressedImageUrl and stats as they were before the call.
C1_NonImageRejected ==
    [][(/\ lastOp'.op \in SelectOps
        /\ ~StartsWith(lastOp'.file.type, ImagePrefix))
       => /\ error' = MsgInvalidFile
          /\ status' = status
          /\ originalFile' = originalFile
          /\ originalImageUrl' = originalImageUrl
          /\ compressedImageUrl' = compressedImageUrl
          /\ stats' = stats]_vars

\* A non-image file was just offered after an earlier image had been selected
\* and cleared.
C1_Witness ==
    /\ lastOp.op \in SelectOps
    /\ lastOp.file.type = "text/plain"
    /\ error = MsgInvalidFile
    /\ status = "idle"
    /\ nextUrl > 1

\* C2: right after a selection of a file whose type starts with 'image/',
\* status is 'image-loaded', originalFile is that file, originalImageUrl is
\* set, and error, compressedImageUrl and stats are null.
C2_ImageLoaded ==
    (/\ lastOp.op \in SelectOps
     /\ StartsWith(lastOp.file.type, ImagePrefix))
    => /\ status = "image-loaded"
       /\ originalFile = lastOp.file
       /\ originalImageUrl # NULL
       /\ originalImageUrl.blob = lastOp.file
       /\ error = NULL
       /\ compressedImageUrl = NULL
       /\ stats = NULL

\* An image was just selected while an earlier compression is still pending.
C2_Witness ==
    /\ lastOp.op \in SelectOps
    /\ StartsWith(lastOp.file.type, ImagePrefix)
    /\ status = "image-loaded"
    /\ tasks # <<>>

Started(t) == lastOp.op = "handleCompress" /\ lastOp.task = t

\* C3 as stated: every handleCompress invocation made with an image loaded
\* is eventually followed by status 'done' with stats set.
C3_EventuallyDone ==
    \A t \in TaskIds : Started(t) ~> (status = "done" /\ stats # NULL)

Succeeded(t) ==
    /\ lastOp.op = "image.onload" /\ lastOp.task = t
    /\ status = "done"
    /\ stats # NULL

FailureReported(t) ==
    /\ lastOp.op \in {"image.onload", "image.onerror"} /\ lastOp.task = t
    /\ status = "image-loaded"
    /\ error \in {MsgNoContext, MsgLoadFailed}

\* C3, amended: every handleCompress invocation made with an image loaded is
\* eventually followed by its own load callback, which either sets status
\* 'done' with stats, or reports a failure (error set, status 'image-loaded').
C3_EventuallyDoneOrFailed ==
    \A t \in TaskIds : Started(t) ~> (Succeeded(t) \/ FailureReported(t))

\* A compression of the selected image has just ended in a reported failure.
C3_Witness ==
    /\ lastOp.op = "image.onerror"
    /\ originalFile # NULL
    /\ status = "image-loaded"
    /\ error = MsgLoadFailed
    /\ stats = NULL

\* C4: whenever stats is set, reductionPercentage is the finite number
\* (1 - compressedSize / originalSize) * 100 and originalSize is the size of
\* the file whose image was compressed.
C4_ReductionPercentage ==
    stats # NULL
    => /\ compressedImageUrl # NULL
       /\ stats.originalSize = compressedImageUrl.src.blob.size
       /\ stats.reductionPercentage.kind = "finite"
       /\ stats.reductionPercentage.den # 0
       /\ stats.reductionPercentage.num * stats.originalSize
            = (stats.originalSize - stats.compressedSize) * 100
                * stats.reductionPercentage.den

\* Stats of a compression whose output is larger than the original.
C4_Witness ==
    /\ stats # NULL
    /\ status = "done"
    /\ stats.compressedSize > stats.originalSize
    /\ stats.reductionPercentage.num < 0

\* C5: right after handleClear the six state cells hold their initial values.
C5_ClearResets ==
    lastOp.op = "handleClear"
    => /\ status = "idle"
       /\ originalFile = NULL
       /\ originalImageUrl = NULL
       /\ compressedImageUrl = NULL
       /\ stats = NULL
       /\ error = NULL
       /\ appState = InitialAppState

\* handleClear has just run while a compression was pending.
C5_Witness ==
    /\ lastOp.op = "handleClear"
    /\ status = "idle"
    /\ tasks # <<>>
    /\ revoked # {}

FailureStep ==
    \/ lastOp'.op = "image.onerror"
    \/ lastOp'.op = "image.onload" /\ lastOp'.info = "no-context"

\* C6: when a compression fails (no 2D context, or the image does not load),
\* error is set, status is 'image-loaded', stats and compressedImageUrl are
\* unchanged and null, and no compression is started by the failure.
C6_FailureReportedOnce ==
    [][FailureStep
       => /\ error' # NULL
          /\ status' = "image-loaded"
          /\ stats' = stats /\ stats' = NULL
          /\ compressedImageUrl' = compressedImageUrl
          /\ compressedImageUrl' = NULL
          /\ Len(tasks') < Len(tasks)
          /\ nextTask' = nextTask]_vars

\* C7: a file offered through the picker or by a drop moves status to
\* 'image-loaded' only if its type is image/jpeg or image/png; any other file
\* leaves status unchanged ('idle') and sets the error message.
C7_JpegPngOnly ==
    lastOp.op \in SelectOps
    => /\ status = "image-loaded" => lastOp.file.type \in AcceptTypes
       /\ lastOp.file.type \notin AcceptTypes
            => status = "idle" /\ error = MsgInvalidFile

Max(S) == CHOOSE x \in S : \A y \in S : x >= y

\* The name with its extension removed: the text before the last '.'.
StripExtension(s) ==
    IF DotPositions(s) = {} THEN s ELSE SubSeq(s, 1, Max(DotPositions(s)) - 1)

BaseNameOrImage(file) ==
    IF file = NULL THEN "image"
    ELSE IF StripExtension(file.name) = "" THEN "image"
    ELSE StripExtension(file.name)

\* C8: handleDownload makes a download only when compressedImageUrl is set,
\* names it compressed_<basename>.jpg, with <basename> the file's name without
\* its extension ('image' when there is none), and changes no state.
C8_DownloadName ==
    [][lastOp'.op = "handleDownload"
       => /\ appState' = appState
          /\ lastOp'.info # "" <=> compressedImageUrl # NULL
          /\ lastOp'.info # ""
                => lastOp'.info
                    = "compressed_" \o BaseNameOrImage(originalFile) \o ".jpg"]_vars

SelectAccepted ==
    /\ lastOp'.op \in SelectOps
    /\ status' = "image-loaded"

\* C9: once cleared, status stays 'idle' and compressedImageUrl and stats stay
\* null until the next successful selection; and status 'done' is entered
\* from 'compressing' only.
C9_ClearCancels ==
    [][/\ (status = "idle" /\ ~SelectAccepted)
            => /\ status' = "idle"
               /\ compressedImageUrl' = NULL
               /\ stats' = NULL
       /\ (status' = "done" /\ status # "done") => status = "compressing"]_vars

\* C10: whenever status is 'done', a file is selected, the results are set,
\* and they were computed from that file's size and its object URL.
C10_ResultsOfCurrentFile ==
    status = "done"
    => /\ originalFile # NULL
       /\ compressedImageUrl # NULL
       /\ stats # NULL
       /\ stats.originalSize = originalFile.size
       /\ compressedImageUrl.src = originalImageUrl

====
